---- MODULE Spec2Model ----
(***************************************************************************)
(* HRMS service (anishEgov/hrmsgo): employee and jurisdiction store,       *)
(* repositories, validator, jurisdiction service and HTTP handlers.        *)
(*                                                                         *)
(* Identifiers (UUIDs) are numbered 1..MaxEmp / 1..MaxJur; 0 is the empty  *)
(* identifier "".  Strings keep their Go zero value "".                    *)
(***************************************************************************)
EXTENDS Integers, Sequences, FiniteSets, TLC

VARIABLES db, resp, inflight, nextEmp, nextJur

vars == <<db, resp, inflight, nextEmp, nextJur>>

(***************************************************************************)
(* Bounds and value domains                                                *)
(***************************************************************************)
MaxEmp == 2

MaxJur == 2

NumProcs == 2

EmpIds == 1..MaxEmp

JurIds == 1..MaxJur

Procs == 1..NumProcs

Tenants == {"t1", "t2"}

OK == "OK"

NOT_FOUND == "NOT_FOUND"

DATABASE_ERROR == "DATABASE_ERROR"

VALIDATION == "VALIDATION"

DUPLICATE == "DUPLICATE"

(***************************************************************************)
(* Tables: partial functions from the primary key to the row.              *)
(***************************************************************************)
Put(f, k, v) == [x \in (DOMAIN f) \cup {k} |-> IF x = k THEN v ELSE f[x]]

Drop(f, K) == [x \in (DOMAIN f) \ K |-> f[x]]

EmptyDb == [employee |-> <<>>, jurisdiction |-> <<>>]

EmpRow(e) ==
    [tenantId |-> e.tenantId, code |-> e.code, status |-> e.status,
     employeeType |-> e.employeeType, isActive |-> e.isActive]

EmpEntity(id, row) ==
    [id |-> id, tenantId |-> row.tenantId, code |-> row.code, status |-> row.status,
     employeeType |-> row.employeeType, isActive |-> row.isActive]

JurRow(j) ==
    [tenantId |-> j.tenantId, employeeId |-> j.employeeId,
     boundaryRelation |-> j.boundaryRelation, isActive |-> j.isActive]

JurEntity(id, row) ==
    [id |-> id, tenantId |-> row.tenantId, employeeId |-> row.employeeId,
     boundaryRelation |-> row.boundaryRelation, isActive |-> row.isActive]

\* CONSTRAINT uk_employee_code_tenant UNIQUE (code, tenant_id): no row other than
\* `id` carries the pair.
uk_employee_code_tenant_Dropped(employee, id, code, tenantId) == TRUE

uk_employee_code_tenant(employee, id, code, tenantId) ==
    \A x \in (DOMAIN employee) \ {id} :
        ~(employee[x].code = code /\ employee[x].tenantId = tenantId)

\* employee_id UUID NOT NULL REFERENCES eg_hrms_employee_v3(id)
fk_jurisdiction_employee(employee, employeeId) == employeeId \in DOMAIN employee

\* ON DELETE CASCADE: the jurisdiction rows left once employee `id` is deleted.
OnDeleteCascade(jurisdiction, id) ==
    Drop(jurisdiction, {x \in DOMAIN jurisdiction : jurisdiction[x].employeeId = id})

\* gorm:"default:true": on INSERT a zero value (false) is replaced by the default.
GormDefaultTrue(b) == IF b = FALSE THEN TRUE ELSE b

\* gorm Updates(struct): only the non-zero fields of the struct are written
\* ("" and 0 for strings and identifiers, false for booleans).
NonZeroStr(new, old) == IF new = "" THEN old ELSE new

NonZeroBool(new, old) == IF new = FALSE THEN old ELSE new

Nil == <<>>

Some(v) == <<v>>

\* The ascending sequence of the identifiers in S.
RECURSIVE Ascending(_)
Ascending(S) ==
    IF S = {} THEN <<>>
    ELSE LET m == CHOOSE x \in S : \A y \in S : x <= y
         IN  <<m>> \o Ascending(S \ {m})

Reverse(s) == [i \in 1..Len(s) |-> s[Len(s) + 1 - i]]

\* tx.Limit(n) / tx.Offset(m), each applied only when > 0.
Window(s, limit, offset) ==
    LET from == IF offset > 0 THEN offset + 1 ELSE 1
        to   == IF limit > 0 THEN from + limit - 1 ELSE Len(s)
        last == IF to > Len(s) THEN Len(s) ELSE to
    IN  IF from > last THEN <<>> ELSE SubSeq(s, from, last)

Result(d, e, r) == [db |-> d, err |-> e, rows |-> r]

(***************************************************************************)
(* employeeRepository                                                      *)
(***************************************************************************)
EmpCreate(d, e) ==
    IF e.id \in DOMAIN d.employee
          \/ ~uk_employee_code_tenant(d.employee, e.id, e.code, e.tenantId)
    THEN Result(d, DATABASE_ERROR, <<>>)
    ELSE LET row == [EmpRow(e) EXCEPT !.isActive = GormDefaultTrue(e.isActive)]
         IN  Result([d EXCEPT !.employee = Put(d.employee, e.id, row)], OK,
                    <<EmpEntity(e.id, row)>>)

EmpFindByCode(d, code, tenantID) ==
    LET hit == {x \in DOMAIN d.employee :
                   d.employee[x].code = code /\ d.employee[x].tenantId = tenantID}
    IN  IF hit = {} THEN Result(d, NOT_FOUND, <<>>)
        ELSE LET x == CHOOSE y \in hit : \A z \in hit : y <= z
             IN  Result(d, OK, <<EmpEntity(x, d.employee[x])>>)

\* A lookup by identifier alone, whatever the tenant.
EmpFindByUUID_AnyTenant(d, uuid, tenantID) ==
    IF uuid \in DOMAIN d.employee
    THEN Result(d, OK, <<EmpEntity(uuid, d.employee[uuid])>>)
    ELSE Result(d, NOT_FOUND, <<>>)

EmpFindByUUID(d, uuid, tenantID) ==
    IF uuid \in DOMAIN d.employee /\ d.employee[uuid].tenantId = tenantID
    THEN Result(d, OK, <<EmpEntity(uuid, d.employee[uuid])>>)
    ELSE Result(d, NOT_FOUND, <<>>)

\* Where("id = ?", employee.ID).Updates(employee)
EmpUpdateWhere(d, e) == {x \in DOMAIN d.employee : x = e.id}

EmpUpdate(d, e) ==
    LET hit == EmpUpdateWhere(d, e)
    IN  IF hit = {} THEN Result(d, NOT_FOUND, <<>>)
        ELSE LET old == d.employee[e.id]
                 row == [tenantId     |-> NonZeroStr(e.tenantId, old.tenantId),
                         code         |-> NonZeroStr(e.code, old.code),
                         status       |-> NonZeroStr(e.status, old.status),
                         employeeType |-> NonZeroStr(e.employeeType, old.employeeType),
                         isActive     |-> NonZeroBool(e.isActive, old.isActive)]
             IN  IF ~uk_employee_code_tenant(d.employee, e.id, row.code, row.tenantId)
                 THEN Result(d, DATABASE_ERROR, <<>>)
                 ELSE Result([d EXCEPT !.employee = Put(d.employee, e.id, row)], OK, <<>>)

EmpDelete(d, id, tenantID) ==
    IF id \in DOMAIN d.employee /\ d.employee[id].tenantId = tenantID
    THEN Result([employee     |-> Drop(d.employee, {id}),
                 jurisdiction |-> OnDeleteCascade(d.jurisdiction, id)], OK, <<>>)
    ELSE Result(d, NOT_FOUND, <<>>)

\* Update("status", status).Error: the error is never gorm.ErrRecordNotFound and
\* RowsAffected is not read, so no matching row is not an error.
EmpUpdateStatus(d, id, status, tenantID) ==
    IF id \in DOMAIN d.employee /\ d.employee[id].tenantId = tenantID
    THEN Result([d EXCEPT !.employee[id].status = status], OK, <<>>)
    ELSE Result(d, OK, <<>>)

EmpUpdateIsActive_NoWrite(d, id, isActive, tenantID) == Result(d, OK, <<>>)

EmpUpdateIsActive(d, id, isActive, tenantID) ==
    IF id \in DOMAIN d.employee /\ d.employee[id].tenantId = tenantID
    THEN Result([d EXCEPT !.employee[id].isActive = isActive], OK, <<>>)
    ELSE Result(d, OK, <<>>)

EmployeeCodeExists(d, code, tenantID) ==
    \E x \in DOMAIN d.employee :
        d.employee[x].code = code /\ d.employee[x].tenantId = tenantID

\* The columns of eg_hrms_employee_v3.
EmployeeColumns ==
    {"id", "code", "user_id", "individual_id", "status", "employee_type",
     "date_of_appointment", "department", "designation", "is_active", "tenant_id",
     "created_by", "last_modified_by", "created_time", "last_modified_time"}

\* Search: WHERE tenant_id = ? and one IN / = predicate per supplied filter,
\* ORDER BY sortBy, or created_time when sortBy is empty, DESC only when
\* sortOrder = "desc", then LIMIT / OFFSET.  The statement fails when it names
\* a column the table does not have.  Rows are ordered here by created_time
\* (identifiers are allotted in creation order), the one ordering column the
\* criteria of this model reach the table with.
EmpSearchWhere(d, c) ==
    {x \in DOMAIN d.employee :
        /\ d.employee[x].tenantId = c.tenantId
        /\ (c.uuids # {} => x \in c.uuids)
        /\ (c.codes # {} => d.employee[x].code \in c.codes)
        /\ (c.isActive # Nil => d.employee[x].isActive = c.isActive[1])}

EmpSearch(d, c) ==
    LET named == (IF c.departments # {} THEN {"department_id"} ELSE {})
                 \cup (IF c.designations # {} THEN {"designation_id"} ELSE {})
                 \cup (IF c.phone # "" THEN {"mobile_number"} ELSE {})
                 \cup {IF c.sortBy = "" THEN "created_time" ELSE c.sortBy}
        ids   == Ascending(EmpSearchWhere(d, c))
        order == IF c.sortOrder = "desc" THEN Reverse(ids) ELSE ids
        win   == Window(order, c.limit, c.offset)
    IN  IF ~(named \subseteq EmployeeColumns) THEN Result(d, DATABASE_ERROR, <<>>)
        ELSE Result(d, OK, [i \in 1..Len(win) |-> EmpEntity(win[i], d.employee[win[i]])])

(***************************************************************************)
(* jurisdictionRepository                                                  *)
(***************************************************************************)
JurCreate(d, j) ==
    IF j.id \in DOMAIN d.jurisdiction
          \/ ~fk_jurisdiction_employee(d.employee, j.employeeId)
    THEN Result(d, DATABASE_ERROR, <<>>)
    ELSE LET row == [JurRow(j) EXCEPT !.isActive = GormDefaultTrue(j.isActive)]
         IN  Result([d EXCEPT !.jurisdiction = Put(d.jurisdiction, j.id, row)], OK,
                    <<JurEntity(j.id, row)>>)

JurFindByUUID(d, uuid, tenantID) ==
    IF uuid \in DOMAIN d.jurisdiction /\ d.jurisdiction[uuid].tenantId = tenantID
    THEN Result(d, OK, <<JurEntity(uuid, d.jurisdiction[uuid])>>)
    ELSE Result(d, NOT_FOUND, <<>>)

\* db.Save(jurisdiction): UPDATE of every column WHERE id = ?; when that affects
\* no row, INSERT ... ON CONFLICT DO UPDATE.
JurUpdate(d, j) ==
    IF ~fk_jurisdiction_employee(d.employee, j.employeeId)
    THEN Result(d, DATABASE_ERROR, <<>>)
    ELSE IF j.id \in DOMAIN d.jurisdiction
    THEN Result([d EXCEPT !.jurisdiction = Put(d.jurisdiction, j.id, JurRow(j))], OK, <<>>)
    ELSE Result([d EXCEPT !.jurisdiction =
                    Put(d.jurisdiction, j.id,
                        [JurRow(j) EXCEPT !.isActive = GormDefaultTrue(j.isActive)])],
                OK, <<>>)

JurDelete(d, id, tenantID) ==
    IF id \in DOMAIN d.jurisdiction /\ d.jurisdiction[id].tenantId = tenantID
    THEN Result([d EXCEPT !.jurisdiction = Drop(d.jurisdiction, {id})], OK, <<>>)
    ELSE Result(d, NOT_FOUND, <<>>)

\* The containment predicates ORed: a row with any of the codes.
Contains_Any(boundaryRelation, codes) ==
    \E c \in codes : \E i \in 1..Len(boundaryRelation) : boundaryRelation[i] = c

\* The boundary_relation @> '["code"]' predicates, one per code, all ANDed.
Contains(boundaryRelation, codes) ==
    \A c \in codes : \E i \in 1..Len(boundaryRelation) : boundaryRelation[i] = c

JurSearchWhere(d, c) ==
    {x \in DOMAIN d.jurisdiction :
        /\ (c.tenantId # "" => d.jurisdiction[x].tenantId = c.tenantId)
        /\ (c.ids # {} => x \in c.ids)
        /\ (c.employeeIds # {} => d.jurisdiction[x].employeeId \in c.employeeIds)
        /\ Contains(d.jurisdiction[x].boundaryRelation, c.boundaryRelations)
        /\ (c.isActive # Nil => d.jurisdiction[x].isActive = c.isActive[1])}

JurSearch(d, c) ==
    LET ids == Ascending(JurSearchWhere(d, c))
        win == Window(ids, c.limit, c.offset)
    IN  Result(d, OK, [i \in 1..Len(win) |-> JurEntity(win[i], d.jurisdiction[win[i]])])

(***************************************************************************)
(* Repository contracts: a repository called directly, with any arguments, *)
(* on a store that starts empty.  resp is the last call: its operation,    *)
(* the tenant it was issued for, its error and the rows it returned.       *)
(***************************************************************************)
Idle == [pc |-> "idle"]

Reply(op, tenantId, key, r) ==
    [op |-> op, tenantId |-> tenantId, key |-> key, err |-> r.err, rows |-> r.rows]

RepoCodes == {"E1", "E2"}

RepoStatuses == {"ACTIVE", "INACTIVE"}

RepoEmployees ==
    [id : EmpIds, tenantId : Tenants, code : RepoCodes, status : {"ACTIVE"},
     employeeType : {"PERMANENT"}, isActive : BOOLEAN]

\* Update takes entities with zero-valued fields too.
RepoEmployeeUpdates ==
    [id : EmpIds, tenantId : Tenants, code : {"", "E2"}, status : {"", "INACTIVE"},
     employeeType : {"PERMANENT"}, isActive : BOOLEAN]

RepoJurisdictions ==
    [id : JurIds, tenantId : Tenants, employeeId : EmpIds,
     boundaryRelation : {<<"B1">>}, isActive : BOOLEAN]

RepoEmpCriteria ==
    [tenantId : Tenants \cup {""}, uuids : {{}}, codes : {{}, {"E1"}},
     departments : {{}, {"D1"}}, designations : {{}}, phone : {"", "9999999999"},
     isActive : {Nil, Some(TRUE)}, sortBy : {"", "createdAt"}, sortOrder : {""},
     limit : {0}, offset : {0}]

RepoJurCriteria ==
    [tenantId : Tenants \cup {""}, ids : {{}}, employeeIds : {{}, {1}},
     boundaryRelations : {{}}, isActive : {Nil, Some(TRUE)}, limit : {0}, offset : {0}]

InitRepo ==
    /\ db = EmptyDb
    /\ resp = [op |-> "none", tenantId |-> "", key |-> "", err |-> OK, rows |-> <<>>]
    /\ inflight = [p \in Procs |-> Idle]
    /\ nextEmp = 1
    /\ nextJur = 1

Call(op, tenantId, key, r) ==
    /\ db' = r.db
    /\ resp' = Reply(op, tenantId, key, r)
    /\ UNCHANGED <<inflight, nextEmp, nextJur>>

RepoEmpCreate == \E e \in RepoEmployees : Call("Emp.Create", e.tenantId, e.id, EmpCreate(db, e))

RepoEmpFindByUUID ==
    \E id \in EmpIds, t \in Tenants : Call("Emp.FindByUUID", t, id, EmpFindByUUID(db, id, t))

RepoEmpFindByCode ==
    \E c \in RepoCodes, t \in Tenants : Call("Emp.FindByCode", t, c, EmpFindByCode(db, c, t))

RepoEmpUpdate ==
    \E e \in RepoEmployeeUpdates : Call("Emp.Update", e.tenantId, e.id, EmpUpdate(db, e))

RepoEmpDelete ==
    \E id \in EmpIds, t \in Tenants : Call("Emp.Delete", t, id, EmpDelete(db, id, t))

RepoEmpSearch == \E c \in RepoEmpCriteria : Call("Emp.Search", c.tenantId, "", EmpSearch(db, c))

RepoEmpUpdateStatus ==
    \E id \in EmpIds, st \in RepoStatuses, t \in Tenants :
        Call("Emp.UpdateStatus", t, id, EmpUpdateStatus(db, id, st, t))

RepoEmpUpdateIsActive ==
    \E id \in EmpIds, a \in BOOLEAN, t \in Tenants :
        Call("Emp.UpdateIsActive", t, id, EmpUpdateIsActive(db, id, a, t))

\* The jurisdiction an employee-repository caller may have stored beforehand.
RepoOwnedJurisdiction ==
    \E t \in Tenants, e \in EmpIds :
        Call("Jur.Create", t, 1,
             JurCreate(db, [id |-> 1, tenantId |-> t, employeeId |-> e,
                            boundaryRelation |-> <<"B1">>, isActive |-> TRUE]))

NextRepo ==
    \/ RepoEmpCreate
    \/ RepoEmpFindByUUID
    \/ RepoEmpFindByCode
    \/ RepoEmpUpdate
    \/ RepoEmpDelete
    \/ RepoEmpSearch
    \/ RepoEmpUpdateStatus
    \/ RepoEmpUpdateIsActive
    \/ RepoOwnedJurisdiction

SpecRepo == InitRepo /\ [][NextRepo]_vars

\* The employee a jurisdiction-repository caller may have stored or deleted.
RepoOwner ==
    \E id \in EmpIds, t \in Tenants :
        \/ Call("Emp.Create", t, id,
                EmpCreate(db, [id |-> id, tenantId |-> t, code |-> "", status |-> "ACTIVE",
                               employeeType |-> "PERMANENT", isActive |-> TRUE]))
        \/ Call("Emp.Delete", t, id, EmpDelete(db, id, t))

RepoJurCreate == \E j \in RepoJurisdictions : Call("Jur.Create", j.tenantId, j.id, JurCreate(db, j))

RepoJurFindByUUID ==
    \E id \in JurIds, t \in Tenants : Call("Jur.FindByUUID", t, id, JurFindByUUID(db, id, t))

RepoJurUpdate == \E j \in RepoJurisdictions : Call("Jur.Update", j.tenantId, j.id, JurUpdate(db, j))

RepoJurDelete ==
    \E id \in JurIds, t \in Tenants : Call("Jur.Delete", t, id, JurDelete(db, id, t))

RepoJurSearch == \E c \in RepoJurCriteria : Call("Jur.Search", c.tenantId, "", JurSearch(db, c))

NextJurRepo ==
    \/ RepoOwner
    \/ RepoJurCreate
    \/ RepoJurFindByUUID
    \/ RepoJurUpdate
    \/ RepoJurDelete
    \/ RepoJurSearch

SpecJurRepo == InitRepo /\ [][NextJurRepo]_vars

(***************************************************************************)
(* C1  Write isolation between tenants: a repository write (Update,        *)
(* Delete, UpdateIsActive, UpdateStatus) issued for tenant T neither       *)
(* changes nor removes a row whose tenantId differs from T.                *)
(***************************************************************************)
WriteOps ==
    {"Emp.Update", "Emp.Delete", "Emp.UpdateIsActive", "Emp.UpdateStatus",
     "Jur.Update", "Jur.Delete"}

Untouched(table, table2, T) ==
    \A x \in DOMAIN table :
        table[x].tenantId # T => x \in DOMAIN table2 /\ table2[x] = table[x]

C1_WriteIsolation ==
    [][resp'.op \in WriteOps =>
          /\ Untouched(db.employee, db'.employee, resp'.tenantId)
          /\ Untouched(db.jurisdiction, db'.jurisdiction, resp'.tenantId)]_vars

(***************************************************************************)
(* C2  Read isolation between tenants: every row returned by FindByUUID,   *)
(* FindByCode or Search carries the tenant passed in, whatever its value,  *)
(* and a lookup by an id or code stored only under another tenant fails    *)
(* with NOT_FOUND.                                                         *)
(***************************************************************************)
ReadOps ==
    {"Emp.FindByUUID", "Emp.FindByCode", "Emp.Search", "Jur.FindByUUID", "Jur.Search"}

C2_ReadIsolation ==
    /\ resp.op \in ReadOps =>
          \A i \in 1..Len(resp.rows) : resp.rows[i].tenantId = resp.tenantId
    /\ resp.op = "Emp.FindByUUID" /\ resp.err = OK =>
          db.employee[resp.key].tenantId = resp.tenantId
    /\ resp.op = "Jur.FindByUUID" /\ resp.err = OK =>
          db.jurisdiction[resp.key].tenantId = resp.tenantId
    /\ resp.op = "Emp.FindByCode" /\ resp.err = OK =>
          EmployeeCodeExists(db, resp.key, resp.tenantId)
    /\ resp.op \in {"Emp.FindByUUID", "Emp.FindByCode", "Jur.FindByUUID"} =>
          resp.err \in {OK, NOT_FOUND}

(***************************************************************************)
(* EmployeeValidator.  Phone numbers and e-mail addresses are sequences of *)
(* characters; the two regular expressions are run as automata over them.  *)
(***************************************************************************)
Digits == {"0", "1", "2", "3", "4", "5", "6", "7", "8", "9"}

Letters == {"a", "b", "c", "d", "e", "f", "g", "h", "i", "j", "k", "l", "m", "n", "o", "p", "q", "r", "s", "t", "u", "v", "w", "x", "y", "z", "A", "B", "C", "D", "E", "F", "G", "H", "I", "J", "K", "L", "M", "N", "O", "P", "Q", "R", "S", "T", "U", "V", "W", "X", "Y", "Z"}

\* phoneRegex = ^[6-9][0-9]{9}$ : the number of characters consumed so far, or -1
\* once the input has left the pattern.
RECURSIVE phoneRun(_, _, _)
phoneRun(s, i, n) ==
    IF i > Len(s) THEN n
    ELSE IF n = 0 /\ s[i] \in {"6", "7", "8", "9"} THEN phoneRun(s, i + 1, 1)
    ELSE IF n >= 1 /\ n < 10 /\ s[i] \in Digits THEN phoneRun(s, i + 1, n + 1)
    ELSE -1

phoneRegex(s) == phoneRun(s, 1, 0) = 10

\* emailRegex = ^[a-zA-Z0-9._%+\-]+@[a-zA-Z0-9.\-]+\.[a-zA-Z]{2,}$ as an NFA:
\* 0 start, 1 in the local part, 2 after "@", 3 in the domain, 4 after the dot,
\* 5 one letter of the last label, 6 two or more (accepting).
emailLocal == Letters \cup Digits \cup {".", "_", "%", "+", "-"}

emailDomain == Letters \cup Digits \cup {".", "-"}

emailStep(q, c) ==
    CASE q = 0 -> IF c \in emailLocal THEN {1} ELSE {}
      [] q = 1 -> (IF c \in emailLocal THEN {1} ELSE {}) \cup (IF c = "@" THEN {2} ELSE {})
      [] q = 2 -> IF c \in emailDomain THEN {3} ELSE {}
      [] q = 3 -> (IF c \in emailDomain THEN {3} ELSE {}) \cup (IF c = "." THEN {4} ELSE {})
      [] q = 4 -> IF c \in Letters THEN {5} ELSE {}
      [] q = 5 -> IF c \in Letters THEN {6} ELSE {}
      [] q = 6 -> IF c \in Letters THEN {6} ELSE {}

RECURSIVE emailRun(_, _, _)
emailRun(s, i, Q) ==
    IF i > Len(s) THEN Q
    ELSE emailRun(s, i + 1, UNION {emailStep(q, s[i]) : q \in Q})

emailRegex(s) == 6 \in emailRun(s, 1, {0})

isValidEmployeeType_TwoTypes(empType) == empType \in {"PERMANENT", "CONTRACT"}

isValidEmployeeStatus_TwoStatuses(status) == status \in {"ACTIVE", "INACTIVE"}

isValidEmployeeType(empType) == empType \in {"PERMANENT", "CONTRACT", "TEMPORARY"}

isValidEmployeeStatus(status) == status \in {"ACTIVE", "INACTIVE", "SUSPENDED"}

\* ValidateCreate returns untyped errors; the model names them by the rule that
\* produced them: VALIDATION for a field rule, DUPLICATE for "already exists".
\* The first rule violated decides.  `lookup` is the outcome of
\* repo.FindByCode: the repository's answer, or a storage fault.
ValidateCreate(d, emp, lookup) ==
    IF emp.tenantId = "" THEN VALIDATION
    ELSE IF emp.employeeType = "" THEN VALIDATION
    ELSE IF ~isValidEmployeeType(emp.employeeType) THEN VALIDATION
    ELSE IF emp.department = "" THEN VALIDATION
    ELSE IF emp.designation = "" THEN VALIDATION
    ELSE IF emp.code # "" /\ (Len(emp.code) < 2 \/ Len(emp.code) > 64) THEN VALIDATION
    ELSE IF emp.code # ""
            /\ lookup.err = OK
            /\ Len(lookup.rows) > 0
            /\ lookup.rows[1].id # emp.id
         THEN DUPLICATE
    ELSE OK

ValidatePatch(patch) ==
    IF patch.employeeType # Nil /\ ~isValidEmployeeType(patch.employeeType[1]) THEN VALIDATION
    ELSE IF patch.employeeStatus # Nil /\ ~isValidEmployeeStatus(patch.employeeStatus[1])
         THEN VALIDATION
    ELSE IF patch.phone # Nil /\ ~phoneRegex(patch.phone[1]) THEN VALIDATION
    ELSE IF patch.emailId # Nil /\ ~emailRegex(patch.emailId[1]) THEN VALIDATION
    ELSE OK

DefaultLimit == 10

validSortFields == {"code", "createdAt", "updatedAt", "employeeType", "status"}

\* ValidateSearch returns its error and the criteria as it leaves them.
ValidateSearch(criteria) ==
    IF criteria.tenantId = "" THEN [err |-> VALIDATION, criteria |-> criteria]
    ELSE LET c1 == IF criteria.limit < 1 THEN [criteria EXCEPT !.limit = DefaultLimit]
                   ELSE criteria
             c2 == IF c1.offset < 0 THEN [c1 EXCEPT !.offset = 0] ELSE c1
         IN  IF c2.sortBy # "" /\ c2.sortBy \notin validSortFields
             THEN [err |-> VALIDATION, criteria |-> c2]
             ELSE IF c2.sortBy # "" /\ c2.sortOrder # ""
                     /\ c2.sortOrder # "asc" /\ c2.sortOrder # "desc"
             THEN [err |-> VALIDATION, criteria |-> c2]
             ELSE [err |-> OK, criteria |-> c2]

(***************************************************************************)
(* The validator on its own: the initial state draws one input, the step   *)
(* validates it.                                                           *)
(***************************************************************************)
CODE64 == "CCCCCCCCCCCCCCCCCCCCCCCCCCCCCCCCCCCCCCCCCCCCCCCCCCCCCCCCCCCCCCCC"

CODE65 == "CCCCCCCCCCCCCCCCCCCCCCCCCCCCCCCCCCCCCCCCCCCCCCCCCCCCCCCCCCCCCCCCC"

ValCodes == {"", "A", "AB", "E1", CODE64, CODE65}

ValTypes == {"", "PERMANENT", "CONTRACT", "TEMPORARY", "permanent", "INTERN"}

ValEmployees ==
    [id : {0, 1}, tenantId : {"", "t1"}, employeeType : ValTypes, department : {"", "D1"},
     designation : {"", "DESG1"}, code : ValCodes]

ValPhones ==
    {<<"9", "8", "7", "6", "5", "4", "3", "2", "1", "0">>,
     <<"6", "0", "0", "0", "0", "0", "0", "0", "0", "0">>,
     <<"5", "8", "7", "6", "5", "4", "3", "2", "1", "0">>,
     <<"9", "8", "7", "6", "5", "4", "3", "2", "1">>,
     <<"9", "8", "7", "6", "5", "4", "3", "2", "1", "0", "0">>,
     <<"9", "8", "7", "6", "5", "a", "3", "2", "1", "0">>,
     <<>>,
     <<"9", "8", "7", "6", "5", "4", "3", "2", "1", "0", "\n">>}

ValEmails ==
    {<<"a", "@", "b", ".", "c", "o">>,
     <<"a", ".", "b", "+", "c", "@", "x", "-", "y", ".", "o", "r", "g", ".", "i", "n">>,
     <<"a", "@", "b", ".", "c">>,
     <<"@", "b", ".", "c", "o">>,
     <<"a", "@", ".", "c", "o">>,
     <<"a", "@", ".", ".", "c", "o">>,
     <<"a", " ", "b", "@", "c", ".", "d", "e">>,
     <<"a", "@", "b", ".", "c", "0">>,
     <<>>,
     <<"a", "@", "b", ".", "c", "o", "\n">>,
     <<"a", "@", "@", "b", ".", "c", "o">>}

Opt(S) == {Nil} \cup {Some(v) : v \in S}

ValPatches ==
    [employeeType : Opt({"", "PERMANENT", "INTERN"}),
     employeeStatus : Opt({"", "ACTIVE", "SUSPENDED", "RETIRED"}),
     phone : Opt(ValPhones), emailId : Opt(ValEmails), isActive : Opt(BOOLEAN)]

ValCriteria ==
    [tenantId : {"", "t1"}, sortBy : validSortFields \cup {"", "name"},
     sortOrder : {"", "asc", "desc", "sideways", "DESC"},
     limit : {-1, 0, 1, DefaultLimit, DefaultLimit + 1}, offset : {-1, 0, 2}]

\* A store holding one employee, code E1 of tenant t1, for the duplicate check.
ValDb ==
    EmpCreate(EmptyDb, [id |-> 1, tenantId |-> "t1", code |-> "E1", status |-> "ACTIVE",
                        employeeType |-> "PERMANENT", isActive |-> TRUE]).db

ValInputs ==
    {[op |-> "input", fn |-> "ValidateCreate", in |-> emp, fault |-> f] :
        emp \in ValEmployees, f \in BOOLEAN}
    \cup {[op |-> "input", fn |-> "ValidatePatch", in |-> patch] : patch \in ValPatches}
    \cup {[op |-> "input", fn |-> "ValidateSearch", in |-> c] : c \in ValCriteria}

InitValidate ==
    /\ db = ValDb
    /\ resp \in ValInputs
    /\ inflight = [p \in Procs |-> Idle]
    /\ nextEmp = 2
    /\ nextJur = 1

DoValidateCreate ==
    /\ resp.op = "input" /\ resp.fn = "ValidateCreate"
    /\ LET emp == resp.in
           lookup == IF resp.fault THEN Result(db, DATABASE_ERROR, <<>>)
                     ELSE EmpFindByCode(db, emp.code, emp.tenantId)
       IN  resp' = [op |-> "ValidateCreate", in |-> emp, lookup |-> lookup.err,
                    err |-> ValidateCreate(db, emp, lookup)]
    /\ UNCHANGED <<db, inflight, nextEmp, nextJur>>

DoValidatePatch ==
    /\ resp.op = "input" /\ resp.fn = "ValidatePatch"
    /\ resp' = [op |-> "ValidatePatch", in |-> resp.in, err |-> ValidatePatch(resp.in)]
    /\ UNCHANGED <<db, inflight, nextEmp, nextJur>>

DoValidateSearch ==
    /\ resp.op = "input" /\ resp.fn = "ValidateSearch"
    /\ LET v == ValidateSearch(resp.in)
       IN  resp' = [op |-> "ValidateSearch", in |-> resp.in, err |-> v.err,
                    out |-> v.criteria]
    /\ UNCHANGED <<db, inflight, nextEmp, nextJur>>

NextValidate == DoValidateCreate \/ DoValidatePatch \/ DoValidateSearch

SpecValidate == InitValidate /\ [][NextValidate]_vars

(***************************************************************************)
(* C5: ValidateCreate on an employee whose code is not already used in the *)
(* tenant succeeds if and only if tenantId, employeeType, department and   *)
(* designation are non-empty, employeeType is PERMANENT, CONTRACT or       *)
(* TEMPORARY, and code is empty or 2..64 long; otherwise it fails with a   *)
(* validation error.                                                       *)
(***************************************************************************)
C5_CodeUnused(emp) ==
    \A x \in DOMAIN db.employee :
        ~(db.employee[x].code = emp.code /\ db.employee[x].tenantId = emp.tenantId)

C5_Rules(emp) ==
    /\ emp.tenantId # "" /\ emp.employeeType # ""
    /\ emp.department # "" /\ emp.designation # ""
    /\ emp.employeeType \in {"PERMANENT", "CONTRACT", "TEMPORARY"}
    /\ (emp.code = "" \/ (2 <= Len(emp.code) /\ Len(emp.code) <= 64))

C5_ValidateCreate ==
    (resp.op = "ValidateCreate" /\ C5_CodeUnused(resp.in)) =>
        /\ resp.err = OK <=> C5_Rules(resp.in)
        /\ resp.err \in {OK, VALIDATION}

C5_Witness ==
    /\ resp.op = "ValidateCreate" /\ C5_CodeUnused(resp.in)
    /\ resp.err = OK
    /\ resp.in.code = CODE64
    /\ resp.in.employeeType = "TEMPORARY"

(***************************************************************************)
(* C6: ValidatePatch succeeds if and only if every field present in the    *)
(* patch satisfies its rule: employeeType one of the three types, status   *)
(* one of ACTIVE, INACTIVE, SUSPENDED, phone ten digits the first of which *)
(* is 6..9, email of the form local@domain.tld.  Absent fields are not     *)
(* validated, so the empty patch succeeds.                                 *)
(***************************************************************************)
C6_Phone(s) ==
    /\ Len(s) = 10
    /\ s[1] \in {"6", "7", "8", "9"}
    /\ \A i \in 1..Len(s) : s[i] \in Digits

C6_Email(s) ==
    \E at \in 1..Len(s) : \E dot \in 1..Len(s) :
        /\ s[at] = "@" /\ s[dot] = "."
        /\ 1 < at /\ at + 1 < dot /\ dot + 2 <= Len(s)
        /\ \A i \in 1..(at - 1) : s[i] \in emailLocal
        /\ \A i \in (at + 1)..(dot - 1) : s[i] \in emailDomain
        /\ \A i \in (dot + 1)..Len(s) : s[i] \in Letters

C6_Rules(patch) ==
    /\ patch.employeeType # Nil =>
           patch.employeeType[1] \in {"PERMANENT", "CONTRACT", "TEMPORARY"}
    /\ patch.employeeStatus # Nil =>
           patch.employeeStatus[1] \in {"ACTIVE", "INACTIVE", "SUSPENDED"}
    /\ patch.phone # Nil => C6_Phone(patch.phone[1])
    /\ patch.emailId # Nil => C6_Email(patch.emailId[1])

C6_EmptyPatch(patch) ==
    /\ patch.employeeType = Nil /\ patch.employeeStatus = Nil
    /\ patch.phone = Nil /\ patch.emailId = Nil /\ patch.isActive = Nil

C6_ValidatePatch ==
    resp.op = "ValidatePatch" =>
        /\ resp.err = OK <=> C6_Rules(resp.in)
        /\ resp.err \in {OK, VALIDATION}
        /\ C6_EmptyPatch(resp.in) => resp.err = OK

C6_Witness ==
    /\ resp.op = "ValidatePatch" /\ resp.err = OK
    /\ resp.in.employeeType = Nil
    /\ resp.in.employeeStatus = Some("SUSPENDED")
    /\ resp.in.phone # Nil /\ resp.in.emailId # Nil

(***************************************************************************)
(* C7: ValidateSearch rejects an empty tenantId, a sortBy outside the      *)
(* allow-list, and a sortOrder other than asc or desc, the last whether or *)
(* not sortBy is supplied.                                                 *)
(***************************************************************************)
C7_MustReject(c) ==
    \/ c.tenantId = ""
    \/ (c.sortBy # "" /\ c.sortBy \notin {"code", "createdAt", "updatedAt", "employeeType", "status"})
    \/ (c.sortOrder # "" /\ c.sortOrder \notin {"asc", "desc"})

C7_ValidateSearchRejects ==
    (resp.op = "ValidateSearch" /\ C7_MustReject(resp.in)) => resp.err # OK

(***************************************************************************)
(* Search requests against a store of up to MaxRows employees, each with   *)
(* one jurisdiction, all of tenant t1.                                     *)
(***************************************************************************)
MaxRows == 11

\* Boundary codes are written here as the sequence of their characters: the
\* jurisdictions of the store carry the codes a; a and b; b and c in turn.
SearchStore(n) ==
    [employee |-> [i \in 1..n |-> [tenantId |-> "t1", code |-> "E" \o ToString(i),
                                    status |-> "ACTIVE", employeeType |-> "PERMANENT",
                                    isActive |-> TRUE]],
     jurisdiction |-> [i \in 1..n |->
                          [tenantId |-> "t1", employeeId |-> i,
                           boundaryRelation |->
                               CASE i % 3 = 1 -> << <<"a">> >>
                                 [] i % 3 = 2 -> << <<"a">>, <<"b">> >>
                                 [] i % 3 = 0 -> << <<"b">>, <<"c">> >>,
                           isActive |-> TRUE]]]

\* strings.Split(s, sep) on a string given as the sequence of its characters.
RECURSIVE Split(_, _)
Split(s, sep) ==
    IF \A i \in 1..Len(s) : s[i] # sep THEN <<s>>
    ELSE LET i == CHOOSE k \in 1..Len(s) : s[k] = sep /\ \A j \in 1..(k - 1) : s[j] # sep
         IN  <<SubSeq(s, 1, i - 1)>> \o Split(SubSeq(s, i + 1, Len(s)), sep)

\* The limit query parameter as the client sends it.
LimitParams ==
    {[kind |-> "absent"], [kind |-> "junk"]}
    \cup {[kind |-> "int", val |-> v] : v \in {-1, 0, 1, DefaultLimit, DefaultLimit + 1}}

\* parseIntParam(c, "limit", 10): the value, and whether strconv.Atoi failed.
parseIntParam(q, defaultValue) ==
    CASE q.kind = "absent" -> [val |-> defaultValue, err |-> FALSE]
      [] q.kind = "junk" -> [val |-> 0, err |-> TRUE]
      [] q.kind = "int" -> [val |-> q.val, err |-> FALSE]

\* JurisdictionHandler.SearchJurisdictions builds the criteria; the service
\* hands them to the repository as they are.  relations are the values of the
\* boundaryRelation query parameter, each split at its commas.
SearchJurisdictions(d, tenantID, q, relations) ==
    LET parsed == parseIntParam(q, DefaultLimit)
        codes(r) == LET parts == Split(r, ",") IN {parts[i] : i \in 1..Len(parts)}
        criteria == [tenantId |-> tenantID, ids |-> {}, employeeIds |-> {},
                     boundaryRelations |->
                         UNION {codes(relations[i]) : i \in 1..Len(relations)},
                     isActive |-> Nil,
                     limit |-> IF parsed.err THEN 0 ELSE parsed.val, offset |-> 0]
    IN  JurSearch(d, criteria)

\* EmployeeService.SearchEmployees: validation, then the repository.
SearchEmployees(d, criteria) ==
    LET v == ValidateSearch(criteria)
    IN  IF v.err # OK THEN Result(d, v.err, <<>>)
        ELSE EmpSearch(d, [tenantId |-> v.criteria.tenantId, uuids |-> {}, codes |-> {},
                           departments |-> {}, designations |-> {}, phone |-> "",
                           isActive |-> v.criteria.isActive,
                           sortBy |-> v.criteria.sortBy,
                           sortOrder |-> v.criteria.sortOrder,
                           limit |-> v.criteria.limit, offset |-> v.criteria.offset])

InitSearch ==
    /\ \E n \in 0..MaxRows : db = SearchStore(n)
    /\ resp = [op |-> "none"]
    /\ inflight = [p \in Procs |-> Idle]
    /\ nextEmp = 1
    /\ nextJur = 1

GetEmployees ==
    /\ \E limit \in {-1, 0, 1, DefaultLimit, DefaultLimit + 1}, sortOrder \in {"", "desc"} :
          LET r == SearchEmployees(db, [tenantId |-> "t1", sortBy |-> "", sortOrder |-> sortOrder,
                                        limit |-> limit, offset |-> 0, isActive |-> Nil])
          IN  resp' = [op |-> "SearchEmployees", limit |-> limit, err |-> r.err,
                       rows |-> r.rows]
    /\ UNCHANGED <<db, inflight, nextEmp, nextJur>>

GetJurisdictions ==
    /\ \E q \in LimitParams :
          LET r == SearchJurisdictions(db, "t1", q, <<>>)
          IN  resp' = [op |-> "SearchJurisdictions", param |-> q, err |-> r.err,
                       rows |-> r.rows]
    /\ UNCHANGED <<db, inflight, nextEmp, nextJur>>

\* A search by boundary codes, with no limit parameter: up to two values of
\* the boundaryRelation parameter, among them "a,b" and the empty string.
GetJurisdictionsByBoundary ==
    /\ \E relations \in UNION {[1..k -> {<<"a">>, <<"b">>, <<"c">>, <<"a", ",", "b">>, <<>>}] :
                                   k \in 0..2} :
          LET r == SearchJurisdictions(db, "t1", [kind |-> "absent"], relations)
          IN  resp' = [op |-> "SearchByBoundary", relations |-> relations, err |-> r.err,
                       rows |-> r.rows]
    /\ UNCHANGED <<db, inflight, nextEmp, nextJur>>

NextSearch == GetEmployees \/ GetJurisdictions \/ GetJurisdictionsByBoundary

SpecSearch == InitSearch /\ [][NextSearch]_vars

(***************************************************************************)
(* C8: an employee or jurisdiction search whose limit is <= 0 runs with    *)
(* the default limit 10: it returns the first 10 matching rows, or all of  *)
(* them when fewer match; never more than 10, never none when rows match.  *)
(***************************************************************************)
C8_Expected(matching) == IF matching > DefaultLimit THEN DefaultLimit ELSE matching

C8_DefaultLimit ==
    /\ (resp.op = "SearchEmployees" /\ resp.limit <= 0) =>
           resp.err = OK /\ Len(resp.rows) = C8_Expected(Cardinality(DOMAIN db.employee))
    /\ (resp.op = "SearchJurisdictions" /\ resp.param.kind = "int" /\ resp.param.val <= 0) =>
           resp.err = OK /\ Len(resp.rows) = C8_Expected(Cardinality(DOMAIN db.jurisdiction))

(***************************************************************************)
(* The employee service.  Its implementation is not among the sources; the *)
(* operations below follow its documented contract over the validator and  *)
(* the repository above.  A create request is two steps, validation and    *)
(* persistence, so that requests interleave as concurrent calls do.        *)
(***************************************************************************)
NewEmployee(id, tenantId, code) ==
    [id |-> id, tenantId |-> tenantId, code |-> code, status |-> "ACTIVE",
     employeeType |-> "PERMANENT", department |-> "D1", designation |-> "DESG1",
     isActive |-> TRUE]

\* The lookup ValidateCreate makes either answers or fails; the request
\* carries on with the lookup's outcome on record.
CreateValidate(p) ==
    /\ inflight[p].pc = "idle"
    /\ nextEmp <= MaxEmp
    /\ \E t \in Tenants, code \in RepoCodes, fault \in BOOLEAN :
          LET emp == NewEmployee(0, t, code)
              lookup == IF fault THEN Result(db, DATABASE_ERROR, <<>>)
                        ELSE EmpFindByCode(db, code, t)
              err == ValidateCreate(db, emp, lookup)
          IN  IF err # OK
              THEN /\ resp' = [op |-> "CreateEmployees", tenantId |-> t, code |-> code,
                               err |-> err, lookup |-> lookup.err]
                   /\ UNCHANGED inflight
              ELSE /\ inflight' = [inflight EXCEPT ![p] =
                                      [pc |-> "persist", tenantId |-> t, code |-> code,
                                       lookup |-> lookup.err]]
                   /\ UNCHANGED resp
    /\ UNCHANGED <<db, nextEmp, nextJur>>

CreatePersist(p) ==
    /\ inflight[p].pc = "persist"
    /\ nextEmp <= MaxEmp
    /\ LET r == EmpCreate(db, NewEmployee(nextEmp, inflight[p].tenantId, inflight[p].code))
       IN  /\ db' = r.db
           /\ resp' = [op |-> "CreateEmployees", tenantId |-> inflight[p].tenantId,
                       code |-> inflight[p].code, err |-> r.err,
                       lookup |-> inflight[p].lookup]
           /\ nextEmp' = IF r.err = OK THEN nextEmp + 1 ELSE nextEmp
    /\ inflight' = [inflight EXCEPT ![p] = Idle]
    /\ UNCHANGED nextJur

HardDeleteEmployee ==
    /\ \E id \in EmpIds, t \in Tenants :
          LET r == EmpDelete(db, id, t)
          IN  /\ db' = r.db
              /\ resp' = [op |-> "HardDeleteEmployee", key |-> id, err |-> r.err]
    /\ UNCHANGED <<inflight, nextEmp, nextJur>>

NextCreate ==
    \/ \E p \in Procs : CreateValidate(p)
    \/ \E p \in Procs : CreatePersist(p)
    \/ HardDeleteEmployee

SpecCreate == InitRepo /\ [][NextCreate]_vars

(***************************************************************************)
(* C3: in every reachable state, also those reached by create requests     *)
(* that each passed validation before the other persisted, no two employee *)
(* rows have the same non-empty code and the same tenantId.                *)
(***************************************************************************)
C3_CodeUniquePerTenant ==
    \A x \in DOMAIN db.employee : \A y \in DOMAIN db.employee :
        (x # y /\ db.employee[x].code # "" /\ db.employee[x].code = db.employee[y].code)
            => db.employee[x].tenantId # db.employee[y].tenantId

\* A create whose code the lookup had found free is refused at persistence,
\* the code having been taken in between.
C3_Witness ==
    /\ resp.op = "CreateEmployees" /\ resp.lookup = NOT_FOUND /\ resp.err = DATABASE_ERROR
    /\ \E x \in DOMAIN db.employee :
          db.employee[x].code = resp.code /\ db.employee[x].tenantId = resp.tenantId

(***************************************************************************)
(* C4: a second create with the (code, tenantId) of an existing employee   *)
(* fails with the duplicate error, whether it runs after the first or      *)
(* concurrently with it, and whatever the duplicate lookup answered.       *)
(***************************************************************************)
C4_SecondCreateIsDuplicate ==
    (/\ resp.op = "CreateEmployees" /\ resp.err # OK
     /\ \E x \in DOMAIN db.employee :
           db.employee[x].code = resp.code /\ db.employee[x].tenantId = resp.tenantId)
        => resp.err = DUPLICATE

(***************************************************************************)
(* The service as a whole, with the employees 1..MaxEmp of tenant t1       *)
(* already on record: patches and hard deletes of employees, and the       *)
(* jurisdiction service.  ReplaceJurisdiction reads, then writes; other    *)
(* requests may run in between.  A request's employeeId of 0 stands for    *)
(* the empty string.                                                       *)
(***************************************************************************)
PatchEmployee(d, uuid, req, tenantID) ==
    LET found == EmpFindByUUID(d, uuid, tenantID)
    IN  IF found.err # OK THEN Result(d, found.err, <<>>)
        ELSE IF ValidatePatch(req) # OK THEN Result(d, VALIDATION, <<>>)
        ELSE LET e == found.rows[1]
                 patched ==
                     [e EXCEPT
                        !.employeeType = IF req.employeeType = Nil THEN @
                                         ELSE req.employeeType[1],
                        !.status = IF req.employeeStatus = Nil THEN @
                                   ELSE req.employeeStatus[1],
                        !.isActive = IF req.isActive = Nil THEN @ ELSE req.isActive[1]]
             IN  EmpUpdate(d, patched)

Patches ==
    [employeeType : {Nil}, employeeStatus : Opt({"", "INACTIVE"}),
     phone : {Nil}, emailId : {Nil}, isActive : Opt(BOOLEAN)]

Init ==
    /\ db = [employee |-> [i \in EmpIds |-> EmpRow(NewEmployee(i, "t1", "E" \o ToString(i)))],
             jurisdiction |-> <<>>]
    /\ resp = [op |-> "none"]
    /\ inflight = [p \in Procs |-> Idle]
    /\ nextEmp = MaxEmp + 1
    /\ nextJur = 1

PatchEmployeeReq(reqs) ==
    /\ \E id \in EmpIds, req \in reqs :
          LET r == PatchEmployee(db, id, req, "t1")
          IN  /\ db' = r.db
              /\ resp' = [op |-> "PatchEmployee", key |-> id, in |-> req, err |-> r.err]
    /\ UNCHANGED <<inflight, nextEmp, nextJur>>

CreateJurisdiction ==
    /\ nextJur <= MaxJur
    /\ \E employeeID \in EmpIds, tenantID \in Tenants :
          LET r == JurCreate(db, [id |-> nextJur, tenantId |-> tenantID,
                                  employeeId |-> employeeID,
                                  boundaryRelation |-> <<"B1">>, isActive |-> TRUE])
          IN  /\ db' = r.db
              /\ resp' = [op |-> "CreateJurisdiction", key |-> nextJur, tenantId |-> tenantID,
                          employeeId |-> employeeID, err |-> r.err]
              /\ nextJur' = IF r.err = OK THEN nextJur + 1 ELSE nextJur
    /\ UNCHANGED <<inflight, nextEmp>>

GetJurisdictionByUUID ==
    /\ \E uuid \in JurIds :
          LET r == JurFindByUUID(db, uuid, "t1")
          IN  resp' = [op |-> "GetJurisdictionByUUID", key |-> uuid, err |-> r.err]
    /\ UNCHANGED <<db, inflight, nextEmp, nextJur>>

\* The fields ReplaceJurisdiction overwrites: those the request supplies,
\* an employeeId other than "", a boundaryRelation that is neither absent nor
\* empty, an isActive that is not absent.
Replaced(existing, req) ==
    [existing EXCEPT
       !.employeeId = IF req.employeeId # 0 THEN req.employeeId ELSE @,
       !.boundaryRelation = IF req.boundaryRelation # Nil /\ Len(req.boundaryRelation[1]) > 0
                            THEN req.boundaryRelation[1] ELSE @,
       !.isActive = IF req.isActive # Nil THEN req.isActive[1] ELSE @]

\* The replace requests of the service as a whole: an employee or none.
ReplaceRequests == [employeeId : EmpIds \cup {0}, boundaryRelation : {Nil}, isActive : {Nil}]

ReplaceJurisdictionRead(p, reqs) ==
    /\ inflight[p].pc = "idle"
    /\ \E uuid \in JurIds, req \in reqs :
          LET found == JurFindByUUID(db, uuid, "t1")
              employeeID == req.employeeId
              refused == [op |-> "ReplaceJurisdiction", key |-> uuid, err |-> NOT_FOUND]
          IN  IF found.err # OK
              THEN resp' = refused /\ UNCHANGED inflight
              ELSE IF /\ employeeID # 0
                      /\ employeeID # found.rows[1].employeeId
                      /\ EmpFindByUUID(db, employeeID, "t1").err # OK
              THEN resp' = refused /\ UNCHANGED inflight
              ELSE /\ inflight' = [inflight EXCEPT ![p] =
                          [pc |-> "update", req |-> req,
                           existing |-> Replaced(found.rows[1], req)]]
                   /\ UNCHANGED resp
    /\ UNCHANGED <<db, nextEmp, nextJur>>

ReplaceJurisdictionWrite(p) ==
    /\ inflight[p].pc = "update"
    /\ LET r == JurUpdate(db, inflight[p].existing)
       IN  /\ db' = r.db
           /\ resp' = [op |-> "ReplaceJurisdiction", key |-> inflight[p].existing.id,
                       req |-> inflight[p].req, err |-> r.err]
    /\ inflight' = [inflight EXCEPT ![p] = Idle]
    /\ UNCHANGED <<nextEmp, nextJur>>

Next ==
    \/ PatchEmployeeReq(Patches)
    \/ HardDeleteEmployee
    \/ CreateJurisdiction
    \/ GetJurisdictionByUUID
    \/ \E p \in Procs : ReplaceJurisdictionRead(p, ReplaceRequests)
    \/ \E p \in Procs : ReplaceJurisdictionWrite(p)

Spec == Init /\ [][Next]_vars

(***************************************************************************)
(* Concurrent replaces of one jurisdiction: jurisdiction 1 of tenant t1 is *)
(* on record for employee 1, with boundary code B1 and active; requests    *)
(* supply any part of employeeId, boundaryRelation and isActive.           *)
(***************************************************************************)
FieldRequests ==
    [employeeId : {0, MaxEmp}, boundaryRelation : {Nil, Some(<<>>), Some(<<"B2">>)},
     isActive : {Nil, Some(FALSE)}]

\* POST /employees/v3/jurisdictions: the binding requires employeeId only; the
\* list of boundary codes is stored as the request carries it.
CreateRequests ==
    [employeeId : {0, 1}, boundaryRelation : {<<>>, <<"B1">>}, isActive : {Nil, Some(FALSE)}]

CreateJurisdictionReq ==
    /\ nextJur <= MaxJur
    /\ \E req \in CreateRequests :
          LET bound == req.employeeId # 0
              r     == JurCreate(db, [id |-> nextJur, tenantId |-> "t1",
                                      employeeId |-> req.employeeId,
                                      boundaryRelation |-> req.boundaryRelation,
                                      isActive |-> IF req.isActive # Nil
                                                   THEN req.isActive[1] ELSE TRUE])
          IN  /\ db' = IF bound THEN r.db ELSE db
              /\ resp' = [op |-> "CreateJurisdiction", key |-> nextJur, req |-> req,
                          err |-> IF bound THEN r.err ELSE "INVALID_REQUEST"]
              /\ nextJur' = IF bound /\ r.err = OK THEN nextJur + 1 ELSE nextJur
    /\ UNCHANGED <<inflight, nextEmp>>

InitReplace ==
    /\ db = [employee |-> [i \in EmpIds |-> EmpRow(NewEmployee(i, "t1", "E" \o ToString(i)))],
             jurisdiction |-> Put(<<>>, 1, [tenantId |-> "t1", employeeId |-> 1,
                                            boundaryRelation |-> <<"B1">>,
                                            isActive |-> TRUE])]
    /\ resp = [op |-> "none"]
    /\ inflight = [p \in Procs |-> Idle]
    /\ nextEmp = MaxEmp + 1
    /\ nextJur = 2

NextReplace ==
    \/ \E p \in Procs : ReplaceJurisdictionRead(p, FieldRequests)
    \/ \E p \in Procs : ReplaceJurisdictionWrite(p)

SpecReplace == InitReplace /\ [][NextReplace]_vars

(***************************************************************************)
(* C9: after a PATCH of an existing employee every field absent from the   *)
(* payload has its stored value unchanged and every field present in the   *)
(* payload, an empty string or false included, has the payload's value in  *)
(* the stored row.                                                         *)
(***************************************************************************)
C9_Patched(present, old, new) == new = IF present = Nil THEN old ELSE present[1]

C9_PatchFrame ==
    [][(resp'.op = "PatchEmployee" /\ resp'.err = OK) =>
          LET old == db.employee[resp'.key]
              new == db'.employee[resp'.key]
          IN  /\ new.tenantId = old.tenantId /\ new.code = old.code
              /\ C9_Patched(resp'.in.employeeType, old.employeeType, new.employeeType)
              /\ C9_Patched(resp'.in.employeeStatus, old.status, new.status)
              /\ C9_Patched(resp'.in.isActive, old.isActive, new.isActive)]_vars

(***************************************************************************)
(* C10: a successful hard delete of an employee leaves no jurisdiction     *)
(* that references the employee and leaves the jurisdictions of other      *)
(* employees as they were; from then on every GetJurisdictionByUUID for a  *)
(* jurisdiction removed that way fails with NOT_FOUND.                     *)
(***************************************************************************)
C10_Cascade ==
    (resp'.op = "HardDeleteEmployee" /\ resp'.err = OK) =>
        /\ \A j \in DOMAIN db'.jurisdiction : db'.jurisdiction[j].employeeId # resp'.key
        /\ \A j \in DOMAIN db.jurisdiction :
              db.jurisdiction[j].employeeId # resp'.key =>
                  j \in DOMAIN db'.jurisdiction /\ db'.jurisdiction[j] = db.jurisdiction[j]

\* Jurisdiction ids are handed out in order and only a cascade removes a row,
\* so an id already handed out and not on record was removed by a hard delete.
\* Once removed it is never on record again, and a lookup of it is answered
\* NOT_FOUND.
C10_Removed(j) == j < nextJur /\ j \notin DOMAIN db.jurisdiction

C10_RemovedStaysNotFound ==
    \A j \in JurIds :
        C10_Removed(j) =>
            /\ C10_Removed(j)'
            /\ (resp'.op = "GetJurisdictionByUUID" /\ resp'.key = j) => resp'.err = NOT_FOUND

C10_HardDeleteCascade == [][C10_Cascade /\ C10_RemovedStaysNotFound]_vars

(***************************************************************************)
(* C11: in every reachable state each stored jurisdiction's employeeId     *)
(* names an existing employee whose tenantId is the jurisdiction's.        *)
(***************************************************************************)
C11_SameTenantEmployee(d, employeeId, tenantId) ==
    employeeId \in DOMAIN d.employee /\ d.employee[employeeId].tenantId = tenantId

C11_JurisdictionOwner ==
    \A j \in DOMAIN db.jurisdiction :
        C11_SameTenantEmployee(db, db.jurisdiction[j].employeeId, db.jurisdiction[j].tenantId)

(***************************************************************************)
(* C12: CreateJurisdiction naming an employeeId that is not an employee of *)
(* the caller's tenant fails with NOT_FOUND and stores no jurisdiction.    *)
(***************************************************************************)
C12_CreateForUnknownEmployee ==
    [][(/\ resp'.op = "CreateJurisdiction"
        /\ ~C11_SameTenantEmployee(db, resp'.employeeId, resp'.tenantId))
          => (resp'.err = NOT_FOUND /\ db'.jurisdiction = db.jurisdiction)]_vars

(***************************************************************************)
(* The ID-generation client.  Identifiers and UUID strings are sequences   *)
(* of characters.  A call's input is the enabled flag, the outcome of each *)
(* remote call in order, and the UUIDs uuid.New() yields in order.         *)
(***************************************************************************)
MaxCount == 3

HexDigits == Digits \cup {"a", "b", "c", "d", "e", "f"}

generateFallbackID_Short(uuid) == <<"E", "M", "P", "-">> \o SubSeq(uuid, 1, 7)

\* "EMP-" + uuid.New().String()[:8]
generateFallbackID(uuid) == <<"E", "M", "P", "-">> \o SubSeq(uuid, 1, 8)

\* The outcomes of one POST to the service: a transport error, a status
\* other than 200, a body that does not decode, a decoded body with an
\* empty id, a decoded body with an id.
RemoteOutcomes ==
    {[neterr |-> TRUE, status |-> 0, decodes |-> FALSE, id |-> <<>>],
     [neterr |-> FALSE, status |-> 500, decodes |-> TRUE, id |-> <<"P", "B", "-", "9">>],
     [neterr |-> FALSE, status |-> 200, decodes |-> FALSE, id |-> <<>>],
     [neterr |-> FALSE, status |-> 200, decodes |-> TRUE, id |-> <<>>],
     [neterr |-> FALSE, status |-> 200, decodes |-> TRUE, id |-> <<"P", "B", "-", "1">>]}

UuidStrings ==
    {<<"3", "f", "2", "a", "9", "c", "1", "e", "-", "7", "b", "4", "d", "-", "4", "e", "6", "a", "-", "9", "c", "0", "f", "-", "1", "d", "2", "e", "3", "f", "4", "a", "5", "b", "6", "c">>,
     <<"0", "0", "f", "f", "a", "0", "b", "1", "-", "0", "0", "0", "0", "-", "4", "0", "0", "0", "-", "8", "0", "0", "0", "-", "0", "0", "0", "0", "0", "0", "0", "0", "0", "0", "0", "0">>}

\* GenerateIDs: the identifiers, the error, and the number of remote calls.
RECURSIVE GenerateIDs(_, _, _, _)
GenerateIDs(enabled, count, outcomes, uuids) ==
    IF ~enabled
    THEN [ids |-> [i \in 1..count |-> generateFallbackID(uuids[i])], err |-> OK, calls |-> 0]
    ELSE IF count = 0 THEN [ids |-> <<>>, err |-> OK, calls |-> 0]
    ELSE LET before == GenerateIDs(enabled, count - 1, outcomes, uuids)
             o == outcomes[count]
             id == IF o.neterr THEN generateFallbackID(uuids[count])
                   ELSE IF o.status # 200 THEN generateFallbackID(uuids[count])
                   ELSE IF ~o.decodes THEN generateFallbackID(uuids[count])
                   ELSE IF o.id = <<>> THEN generateFallbackID(uuids[count])
                   ELSE o.id
         IN  [ids |-> Append(before.ids, id), err |-> before.err, calls |-> before.calls + 1]

InitIdGen ==
    /\ db = EmptyDb
    /\ \E count \in 0..MaxCount :
          resp \in [op : {"input"}, enabled : BOOLEAN, count : {count},
                    outcomes : [1..count -> RemoteOutcomes],
                    uuids : [1..count -> UuidStrings]]
    /\ inflight = [p \in Procs |-> Idle]
    /\ nextEmp = 1
    /\ nextJur = 1

DoGenerateIDs ==
    /\ resp.op = "input"
    /\ LET r == GenerateIDs(resp.enabled, resp.count, resp.outcomes, resp.uuids)
       IN  resp' = [op |-> "GenerateIDs", enabled |-> resp.enabled, count |-> resp.count,
                    outcomes |-> resp.outcomes, ids |-> r.ids, err |-> r.err,
                    calls |-> r.calls]
    /\ UNCHANGED <<db, inflight, nextEmp, nextJur>>

SpecIdGen == InitIdGen /\ [][DoGenerateIDs]_vars

(***************************************************************************)
(* C13: GenerateIDs never fails on a remote fault: for every count >= 0    *)
(* and every pattern of per-call outcomes it returns without error exactly *)
(* count identifiers in request order, the i-th being the remote id when   *)
(* the i-th call returned 200 with a decodable non-empty id and otherwise  *)
(* EMP- followed by 8 hex characters; a disabled client makes no remote    *)
(* call and returns fallbacks only.                                        *)
(***************************************************************************)
C13_IsFallback(id) ==
    /\ Len(id) = 12
    /\ SubSeq(id, 1, 4) = <<"E", "M", "P", "-">>
    /\ \A i \in 5..12 : id[i] \in HexDigits

C13_Succeeded(o) == ~o.neterr /\ o.status = 200 /\ o.decodes /\ o.id # <<>>

C13_GenerateIDs ==
    resp.op = "GenerateIDs" =>
        /\ resp.err = OK
        /\ Len(resp.ids) = resp.count
        /\ \A i \in 1..resp.count :
              IF resp.enabled /\ C13_Succeeded(resp.outcomes[i])
              THEN resp.ids[i] = resp.outcomes[i].id
              ELSE C13_IsFallback(resp.ids[i])
        /\ resp.calls = IF resp.enabled THEN resp.count ELSE 0

C13_Witness ==
    /\ resp.op = "GenerateIDs" /\ resp.enabled /\ resp.count >= 2
    /\ C13_Succeeded(resp.outcomes[1]) /\ resp.ids[1] = resp.outcomes[1].id
    /\ resp.outcomes[2].neterr /\ C13_IsFallback(resp.ids[2])

(***************************************************************************)
(* Activation life cycle of the employees of tenant t1.  The handlers call *)
(* the service with the employee id and the tenant only: the request body  *)
(* is never bound, so its reason and effectiveFrom do not reach the        *)
(* service.  The service operations follow the documented state machine    *)
(* (ACTIVE -> INACTIVE on deactivate, INACTIVE -> ACTIVE on reactivate)    *)
(* over the repository's single-column updates.                            *)
(***************************************************************************)
SetActivation(d, uuid, tenantID, from, to, isActive) ==
    LET found == EmpFindByUUID(d, uuid, tenantID)
    IN  IF found.err # OK THEN Result(d, found.err, <<>>)
        ELSE IF found.rows[1].status # from THEN Result(d, VALIDATION, <<>>)
        ELSE LET flagged == EmpUpdateIsActive(d, uuid, isActive, tenantID)
             IN  IF flagged.err # OK THEN flagged
                 ELSE EmpUpdateStatus(flagged.db, uuid, to, tenantID)

DeactivateEmployee(d, uuid, tenantID) ==
    SetActivation(d, uuid, tenantID, "ACTIVE", "INACTIVE", FALSE)

ReactivateEmployee(d, uuid, tenantID) ==
    SetActivation(d, uuid, tenantID, "INACTIVE", "ACTIVE", TRUE)

\* What a client puts in the body of a deactivate or reactivate request.
ActivationBodies == [reason : {"", "resigned"}, effectiveFrom : Opt({20251126})]

DeactivateEmployeeReq ==
    /\ \E id \in EmpIds, body \in ActivationBodies :
          LET r == DeactivateEmployee(db, id, "t1")
          IN  /\ db' = r.db
              /\ resp' = [op |-> "DeactivateEmployee", key |-> id, body |-> body,
                          err |-> r.err]
    /\ UNCHANGED <<inflight, nextEmp, nextJur>>

ReactivateEmployeeReq ==
    /\ \E id \in EmpIds, body \in ActivationBodies :
          LET r == ReactivateEmployee(db, id, "t1")
          IN  /\ db' = r.db
              /\ resp' = [op |-> "ReactivateEmployee", key |-> id, body |-> body,
                          err |-> r.err]
    /\ UNCHANGED <<inflight, nextEmp, nextJur>>

StatusPatches ==
    [employeeType : {Nil}, employeeStatus : Opt({"ACTIVE", "SUSPENDED"}),
     phone : {Nil}, emailId : {Nil}, isActive : {Nil}]

SearchByIsActive ==
    /\ \E isActive \in BOOLEAN :
          LET r == SearchEmployees(db, [tenantId |-> "t1", sortBy |-> "", sortOrder |-> "",
                                        limit |-> 0, offset |-> 0,
                                        isActive |-> Some(isActive)])
          IN  resp' = [op |-> "SearchEmployees", isActive |-> isActive, err |-> r.err,
                       rows |-> r.rows]
    /\ UNCHANGED <<db, inflight, nextEmp, nextJur>>

NextLifecycle ==
    \/ DeactivateEmployeeReq
    \/ ReactivateEmployeeReq
    \/ PatchEmployeeReq(StatusPatches)
    \/ SearchByIsActive

SpecLifecycle == Init /\ [][NextLifecycle]_vars

(***************************************************************************)
(* C14: a deactivate request without effectiveFrom or without a reason     *)
(* fails with a validation error and leaves the employee's isActive and    *)
(* status as they were.                                                    *)
(***************************************************************************)
C14_DeactivateNeedsDetails ==
    [][(/\ resp'.op = "DeactivateEmployee"
        /\ (resp'.body.reason = "" \/ resp'.body.effectiveFrom = Nil))
          => (resp'.err = VALIDATION /\ db'.employee = db.employee)]_vars

(***************************************************************************)
(* C15: after a successful deactivation the stored employee has isActive   *)
(* false; a search of the tenant filtering isActive = false returns the    *)
(* employees stored with isActive false, the deactivated one among them,   *)
(* and a search filtering isActive = true returns none of them.            *)
(***************************************************************************)
C15_Found == {resp.rows[i].id : i \in 1..Len(resp.rows)}

HeaderValues == {"", "t1", "t2"}

ErrorString(code) == code \o ": message"

\* A middleware that sets the tenant from the header without checking it.
Headers_Unchecked(path, tentantID) ==
    IF path = "/health" THEN [abort |-> FALSE, tenantID |-> Nil]
    ELSE [abort |-> FALSE, tenantID |-> Some(tentantID)]

Headers(path, tentantID) ==
    IF path = "/health" THEN [abort |-> FALSE, tenantID |-> Nil]
    ELSE IF tentantID = "" THEN [abort |-> TRUE, tenantID |-> Nil]
    ELSE [abort |-> FALSE, tenantID |-> Some(tentantID)]

\* uuid.Parse
uuidParse(id) == id # 0

\* EmployeeHandler.handleError: gin.H{"error": err.Error()}
employeeHandleError(d, status, tID, err) ==
    [db |-> d, status |-> status, tenantID |-> tID, cause |-> err,
     body |-> [code |-> Nil, message |-> ErrorString(err)]]

\* *errors.Error has a field Code, no method Code().
getErrorCode(err) == "INTERNAL_ERROR"

jurisdictionHandleError(d, status, tID, cause, err) ==
    [db |-> d, status |-> status, tenantID |-> tID, cause |-> cause,
     body |-> [code |-> Some(getErrorCode(err)), message |-> ErrorString(err)]]

Success(d, status, tID) ==
    [db |-> d, status |-> status, tenantID |-> tID, cause |-> OK,
     body |-> [code |-> Nil, message |-> ""]]

\* The tenant a handler takes from the context; "" when the middleware set none.
tID(ctx) == IF ctx = Nil THEN "" ELSE ctx[1]

\* The steps every employee handler takes around its service call; r is
\* what the service answers when called with tID(ctx).
EmployeeRoute(ctx, id, bound, created, r) ==
    IF ctx = Nil THEN employeeHandleError(db, 500, Nil, "INTERNAL_ERROR")
    ELSE IF ~uuidParse(id) THEN employeeHandleError(db, 400, Nil, "INVALID_UUID")
    ELSE IF ~bound THEN employeeHandleError(db, 400, Nil, "INVALID_REQUEST")
    ELSE IF r.err # OK THEN employeeHandleError(r.db, 500, ctx, r.err)
    ELSE Success(r.db, created, ctx)

\* The steps every jurisdiction handler takes around its service call;
\* notFound is the status it answers a NOT_FOUND of the service with.
JurisdictionRoute(ctx, uuid, bound, created, notFound, r) ==
    IF ctx = Nil THEN jurisdictionHandleError(db, 500, Nil, "INTERNAL_ERROR", "INTERNAL_ERROR")
    ELSE IF ~uuidParse(uuid)
    THEN jurisdictionHandleError(db, 400, Nil, "INVALID_UUID", "INVALID_UUID")
    ELSE IF ~bound
    THEN jurisdictionHandleError(db, 400, Nil, "INVALID_REQUEST", "INVALID_REQUEST")
    ELSE IF r.err = OK THEN Success(r.db, created, ctx)
    ELSE IF r.err = NOT_FOUND
    THEN jurisdictionHandleError(r.db, notFound, ctx, r.err, NOT_FOUND)
    ELSE jurisdictionHandleError(r.db, 500, ctx, r.err, r.err)

\* jurisdictionService.ReplaceJurisdiction, when nothing runs between its
\* read and its write.
ReplaceJurisdiction(d, uuid, req, tenantID) ==
    LET found == JurFindByUUID(d, uuid, tenantID)
    IN  IF found.err # OK THEN Result(d, NOT_FOUND, <<>>)
        ELSE IF /\ req.employeeId # 0
                /\ req.employeeId # found.rows[1].employeeId
                /\ EmpFindByUUID(d, req.employeeId, tenantID).err # OK
        THEN Result(d, NOT_FOUND, <<>>)
        ELSE LET r == JurUpdate(d, Replaced(found.rows[1], req))
             IN  IF r.err # OK THEN Result(d, DATABASE_ERROR, <<>>) ELSE r

\* One request through the router: the middleware, then the route's handler,
\* whose answer is h.
Serve(op, path, header, key, req, h) ==
    /\ IF Headers(path, header).abort
       THEN /\ db' = db
            /\ resp' = [op |-> "Headers", path |-> path, header |-> header, key |-> key,
                        req |-> req, status |-> 400, tenantID |-> Nil, cause |-> "MISSING_HEADER",
                        body |-> [code |-> Nil, message |-> ErrorString("MISSING_HEADER")]]
       ELSE /\ db' = h.db
            /\ resp' = [op |-> op, path |-> path, header |-> header, key |-> key,
                        req |-> req, status |-> h.status, tenantID |-> h.tenantID,
                        cause |-> h.cause, body |-> h.body]
    /\ UNCHANGED <<inflight, nextEmp>>

HttpHealth ==
    /\ \E header \in HeaderValues :
          Serve("health", "/health", header, 0, Nil, Success(db, 200, Nil))
    /\ UNCHANGED nextJur

HttpGetEmployeeByUUID ==
    /\ \E header \in HeaderValues, id \in EmpIds \cup {0} :
          LET path == "/employees/v3/:id"
              ctx  == Headers(path, header).tenantID
              r    == EmpFindByUUID(db, id, tID(ctx))
          IN  Serve("GetEmployeeByUUID", path, header, id, Nil,
                    EmployeeRoute(ctx, id, TRUE, 200, r))
    /\ UNCHANGED nextJur

\* The patches sent over HTTP name a status that is not one of the three, or
\* the status the employees on record already have.
HttpPatchEmployee ==
    /\ \E header \in HeaderValues, id \in EmpIds \cup {0},
          req \in [employeeType : {Nil}, employeeStatus : {Some(""), Some("ACTIVE")},
                   phone : {Nil}, emailId : {Nil}, isActive : {Nil}] :
          LET path == "/employees/v3/:id"
              ctx  == Headers(path, header).tenantID
              r    == PatchEmployee(db, id, req, tID(ctx))
          IN  Serve("PatchEmployee", path, header, id, req,
                    EmployeeRoute(ctx, id, TRUE, 200, r))
    /\ UNCHANGED nextJur

HttpGetJurisdictionByUUID ==
    /\ \E header \in HeaderValues, uuid \in JurIds \cup {0} :
          LET path == "/employees/v3/jurisdictions/:uuid"
              ctx  == Headers(path, header).tenantID
              r    == JurFindByUUID(db, uuid, tID(ctx))
          IN  Serve("GetJurisdictionByUUID", path, header, uuid, Nil,
                    JurisdictionRoute(ctx, uuid, TRUE, 200, 404, r))
    /\ UNCHANGED nextJur

\* CreateJurisdiction has no path parameter; the identifier is the one the
\* service allots.
HttpCreateJurisdiction ==
    /\ nextJur <= MaxJur
    /\ \E header \in HeaderValues, employeeID \in EmpIds, bound \in BOOLEAN :
          LET path == "/employees/v3/jurisdictions"
              ctx  == Headers(path, header).tenantID
              r    == JurCreate(db, [id |-> nextJur, tenantId |-> tID(ctx),
                                     employeeId |-> employeeID,
                                     boundaryRelation |-> <<"B1">>, isActive |-> TRUE])
          IN  /\ Serve("CreateJurisdiction", path, header, nextJur, employeeID,
                       JurisdictionRoute(ctx, nextJur, bound, 201, 500, r))
              /\ nextJur' = IF resp'.status = 201 THEN nextJur + 1 ELSE nextJur

\* A replace request names no employee (""), the last employee on record, or
\* one that is not on record.
HttpReplaceJurisdiction ==
    /\ \E header \in HeaderValues, uuid \in JurIds \cup {0}, bound \in BOOLEAN,
          req \in [employeeId : {0, MaxEmp, nextEmp}, boundaryRelation : {Nil},
                   isActive : {Nil}] :
          LET path == "/employees/v3/jurisdictions/:uuid"
              ctx  == Headers(path, header).tenantID
              r    == ReplaceJurisdiction(db, uuid, req, tID(ctx))
          IN  Serve("ReplaceJurisdiction", path, header, uuid, req,
                    JurisdictionRoute(ctx, uuid, bound, 200, 500, r))
    /\ UNCHANGED nextJur

NextHttp ==
    \/ HttpHealth
    \/ HttpGetEmployeeByUUID
    \/ HttpPatchEmployee
    \/ HttpGetJurisdictionByUUID
    \/ HttpCreateJurisdiction
    \/ HttpReplaceJurisdiction

SpecHttp == Init /\ [][NextHttp]_vars

(***************************************************************************)
(* Creates and replaces of jurisdictions one after the other, from the     *)
(* same store.                                                             *)
(***************************************************************************)
ReplaceJurisdictionReq ==
    /\ \E uuid \in JurIds, req \in FieldRequests :
          LET r == ReplaceJurisdiction(db, uuid, req, "t1")
          IN  /\ db' = r.db
              /\ resp' = [op |-> "ReplaceJurisdiction", key |-> uuid, req |-> req,
                          err |-> r.err]
    /\ UNCHANGED <<inflight, nextEmp, nextJur>>

NextBoundary == CreateJurisdictionReq \/ ReplaceJurisdictionReq

SpecBoundary == InitReplace /\ [][NextBoundary]_vars

(***************************************************************************)
(* pkg/errors: the error values are package variables holding pointers;    *)
(* WithDescription and WithOperation assign to the value they are called   *)
(* on and return the same pointer.  The store record carries, next to the  *)
(* tables, the value ErrNotFound points to; a request that is returned     *)
(* ErrNotFound holds the pointer, and reads the value when it renders it.  *)
(***************************************************************************)
WithDescription(e, desc) == [e EXCEPT !.Description = desc]

WithOperation(e, op) == [e EXCEPT !.Op = op]

Error(e) ==
    IF e.Description # ""
    THEN e.Code \o ": " \o e.Message \o " (" \o e.Description \o ")"
    ELSE e.Code \o ": " \o e.Message

InitErrors ==
    /\ db = [employee |-> [i \in EmpIds |-> EmpRow(NewEmployee(i, "t1", "E" \o ToString(i)))],
             jurisdiction |-> Put(<<>>, 1, [tenantId |-> "t1", employeeId |-> 1,
                                            boundaryRelation |-> <<"B1">>,
                                            isActive |-> TRUE]),
             ErrNotFound |-> [Code |-> "NOT_FOUND",
                              Message |-> "The requested resource was not found",
                              Description |-> "", Op |-> ""]]
    /\ resp = [op |-> "none"]
    /\ inflight = [p \in Procs |-> Idle]
    /\ nextEmp = MaxEmp + 1
    /\ nextJur = 2

\* The repository's FindByUUID of a request for tenant t1: a row that is found
\* is answered (a replace with an empty body writes it back as it is); for a
\* row that is not, the repository describes ErrNotFound and returns it.
RepoFindByUUID(p) ==
    /\ inflight[p] = Idle
    /\ \E op \in {"GetEmployeeByUUID", "GetJurisdictionByUUID", "ReplaceJurisdiction"},
          key \in 1..2 :
          LET found == IF op = "GetEmployeeByUUID"
                       THEN EmpFindByUUID(db, MaxEmp + key - 1, "t1")
                       ELSE JurFindByUUID(db, key, "t1")
              desc  == IF op = "GetEmployeeByUUID"
                       THEN "employee not found" ELSE "jurisdiction not found"
          IN  IF found.err = OK
              THEN /\ db' = IF op = "ReplaceJurisdiction"
                            THEN ReplaceJurisdiction(db, key,
                                    [employeeId |-> 0, boundaryRelation |-> Nil,
                                     isActive |-> Nil], "t1").db
                            ELSE db
                   /\ resp' = [op |-> op, status |-> 200, err |-> Nil, message |-> ""]
                   /\ inflight' = inflight
              ELSE /\ db' = [db EXCEPT !.ErrNotFound = WithDescription(@, desc)]
                   /\ resp' = resp
                   /\ inflight' = [inflight EXCEPT ![p] = [pc |-> "service", op |-> op]]
    /\ UNCHANGED <<nextEmp, nextJur>>

\* The service, handed the repository's error: the jurisdiction service
\* describes ErrNotFound again and names its operation on it; the employee
\* service hands on what it was given.
ServiceNotFound(p) ==
    /\ inflight[p].pc = "service"
    /\ db' = IF inflight[p].op = "GetEmployeeByUUID" THEN db
             ELSE [db EXCEPT !.ErrNotFound =
                      WithOperation(WithDescription(@, "jurisdiction not found"),
                                    inflight[p].op)]
    /\ inflight' = [inflight EXCEPT ![p].pc = "handler"]
    /\ UNCHANGED <<resp, nextEmp, nextJur>>

\* The handler renders the error: GetJurisdictionByUUID answers 404 with an
\* error of its own, the others 500 with the error they were returned.
HandlerNotFound(p) ==
    /\ inflight[p].pc = "handler"
    /\ LET op  == inflight[p].op
           err == IF op = "GetJurisdictionByUUID"
                  THEN [Code |-> "NOT_FOUND", Message |-> "Jurisdiction not found",
                        Description |-> "", Op |-> ""]
                  ELSE db.ErrNotFound
       IN  resp' = [op |-> op, status |-> IF op = "GetJurisdictionByUUID" THEN 404 ELSE 500,
                    err |-> Some(err), message |-> Error(err)]
    /\ inflight' = [inflight EXCEPT ![p] = Idle]
    /\ UNCHANGED <<db, nextEmp, nextJur>>

NextErrors ==
    \/ \E p \in Procs : RepoFindByUUID(p)
    \/ \E p \in Procs : ServiceNotFound(p)
    \/ \E p \in Procs : HandlerNotFound(p)

SpecErrors == InitErrors /\ [][NextErrors]_vars

(***************************************************************************)
(* C17: a request to a route other than /health without a non-empty        *)
(* X-Tenant-ID header is answered 400 by the middleware and runs no        *)
(* handler or service operation (the store is unchanged); when a handler   *)
(* hands a tenant to a service operation, it is the header's value, and a  *)
(* jurisdiction created by the request is stored under that tenant.        *)
(***************************************************************************)
C17_TenantHeader ==
    [][/\ (resp'.path # "/health" /\ resp'.header = "")
              => (resp'.status = 400 /\ resp'.op = "Headers" /\ resp'.tenantID = Nil
                  /\ db' = db)
       /\ resp'.tenantID # Nil => resp'.tenantID = Some(resp'.header)
       /\ (resp'.op = "CreateJurisdiction" /\ resp'.status = 201)
              => db'.jurisdiction[resp'.key].tenantId = resp'.header]_vars

\* The middleware has refused a request, and a jurisdiction created by an
\* earlier request is stored under tenant t2, the value of its header.
C17_Witness ==
    /\ resp.op = "Headers"
    /\ resp.status = 400
    /\ \E j \in DOMAIN db.jurisdiction : db.jurisdiction[j].tenantId = "t2"

(***************************************************************************)
(* C18: a failure caused by a NotFoundError is answered 404, one caused by *)
(* a ValidationError 400, and only storage and internal errors 500.        *)
(***************************************************************************)
C18_StatusOfFailure ==
    "cause" \in DOMAIN resp =>
        /\ resp.cause = NOT_FOUND => resp.status = 404
        /\ resp.cause = VALIDATION => resp.status = 400
        /\ resp.status = 500 => resp.cause \in {DATABASE_ERROR, "INTERNAL_ERROR"}

(***************************************************************************)
(* C19: every failure response carries an error body with a code, the code *)
(* of the error that caused the failure, and a message.                    *)
(***************************************************************************)
C19_ErrorBody ==
    ("status" \in DOMAIN resp /\ resp.status >= 400) =>
        (resp.body.code = Some(resp.cause) /\ resp.body.message # "")

(***************************************************************************)
(* C20: employee repository Search answers without error, whatever filters *)
(* and sort field the criteria carry, with rows of the criteria's tenant   *)
(* only; an empty result is not an error.                                  *)
(***************************************************************************)
C20_SearchWithoutError ==
    resp.op = "Emp.Search" =>
        /\ resp.err = OK
        /\ \A i \in 1..Len(resp.rows) : resp.rows[i].tenantId = resp.tenantId

(***************************************************************************)
(* C21: a jurisdiction search with the set B of boundary codes returns     *)
(* exactly the rows whose boundaryRelation contains every code of B, when  *)
(* the page holds them all; and a search with one more boundaryRelation    *)
(* value then returns no row that the search without it did not return.    *)
(***************************************************************************)
C21_Codes(relations) ==
    UNION {LET parts == Split(relations[i], ",") IN {parts[k] : k \in 1..Len(parts)} :
              i \in 1..Len(relations)}

C21_ContainsAll(x, B) ==
    \A c \in B : \E i \in 1..Len(db.jurisdiction[x].boundaryRelation) :
                    db.jurisdiction[x].boundaryRelation[i] = c

C21_Found(rows) == {rows[i].id : i \in 1..Len(rows)}

C22_NoRow(op, id, tenantId) ==
    \/ id \notin DOMAIN db.employee
    \/ op # "Emp.Update" /\ db.employee[id].tenantId # tenantId

C22_NotFoundOnNoRow ==
    [][(/\ resp'.op \in {"Emp.Update", "Emp.Delete", "Emp.UpdateIsActive", "Emp.UpdateStatus"}
        /\ C22_NoRow(resp'.op, resp'.key, resp'.tenantId))
          => (resp'.err = NOT_FOUND /\ db' = db)]_vars

(***************************************************************************)
(* C23: after a successful Update(entity) every column of the stored row   *)
(* equals the entity's field, empty strings and false included.            *)
(***************************************************************************)
C23_FullRowUpdate ==
    [][(resp'.op = "Emp.Update" /\ resp'.err = OK) =>
          \E e \in RepoEmployeeUpdates :
              /\ e.id = resp'.key
              /\ e.tenantId = resp'.tenantId
              /\ db'.employee[e.id] = EmpRow(e)
              /\ db' = EmpUpdate(db, e).db]_vars

(***************************************************************************)
(* C24: a ReplaceJurisdiction on an identifier that is no jurisdiction of  *)
(* the caller's tenant fails with NOT_FOUND; so does one whose request     *)
(* names an employee that differs from the stored one and is no employee   *)
(* of the caller's tenant; both leave the store unchanged.                 *)
(***************************************************************************)
C24_Stored(d, uuid, tenantId) ==
    uuid \in DOMAIN d.jurisdiction /\ d.jurisdiction[uuid].tenantId = tenantId

C24_UnknownEmployee(d, uuid, req, tenantId) ==
    /\ req.employeeId # 0
    /\ req.employeeId # d.jurisdiction[uuid].employeeId
    /\ ~(/\ req.employeeId \in DOMAIN d.employee
         /\ d.employee[req.employeeId].tenantId = tenantId)

C24_ReplaceNotFound ==
    [][(resp'.op = "ReplaceJurisdiction" /\ resp'.tenantID # Nil) =>
          ((\/ ~C24_Stored(db, resp'.key, resp'.header)
            \/ C24_UnknownEmployee(db, resp'.key, resp'.req, resp'.header))
              => (resp'.cause = NOT_FOUND /\ db' = db))]_vars

\* A replace of a jurisdiction of the caller's tenant was refused: the
\* employee of the request, on record for tenant t1, is none of tenant t2's.
C24_Witness ==
    /\ resp.op = "ReplaceJurisdiction"
    /\ resp.cause = NOT_FOUND
    /\ resp.header = "t2"
    /\ C24_Stored(db, resp.key, "t2")
    /\ resp.req.employeeId \in DOMAIN db.employee

(***************************************************************************)
(* C25: after a successful ReplaceJurisdiction the stored jurisdiction's   *)
(* employeeId, boundaryRelation and isActive are those of the request.     *)
(***************************************************************************)
C25_CompleteReplace ==
    [][(resp'.op = "ReplaceJurisdiction" /\ resp'.err = OK) =>
          LET row == db'.jurisdiction[resp'.key]
          IN  /\ row.employeeId = resp'.req.employeeId
              /\ Some(row.boundaryRelation) = resp'.req.boundaryRelation
              /\ Some(row.isActive) = resp'.req.isActive]_vars

(***************************************************************************)
(* C26: every stored jurisdiction has a boundaryRelation list of length at *)
(* least 1, after any creates and replaces the HTTP layer accepts.         *)
(***************************************************************************)
C26_BoundaryNonEmpty ==
    \A j \in DOMAIN db.jurisdiction : Len(db.jurisdiction[j].boundaryRelation) >= 1

(***************************************************************************)
(* C27: a ReplaceJurisdiction whose target is no longer stored when it     *)
(* writes fails with NotFoundError and creates no row.                     *)
(***************************************************************************)
C27_NoResurrection ==
    [][(resp'.op = "ReplaceJurisdiction" /\ resp'.key \notin DOMAIN db.jurisdiction) =>
          (resp'.err = NOT_FOUND /\ db'.jurisdiction = db.jurisdiction)]_vars

(***************************************************************************)
(* C28: no lost update between concurrent replaces of one jurisdiction: a  *)
(* successful replace that supplies only isActive leaves the stored        *)
(* boundaryRelation as it is when it writes, and one that supplies only    *)
(* boundaryRelation leaves the stored isActive, so that after both the row *)
(* carries both new values.                                                *)
(***************************************************************************)
C28_NoLostUpdate ==
    [][(/\ resp'.op = "ReplaceJurisdiction"
        /\ resp'.err = OK
        /\ resp'.key \in DOMAIN db.jurisdiction
        /\ resp'.req.employeeId = 0) =>
          LET old == db.jurisdiction[resp'.key]
              new == db'.jurisdiction[resp'.key]
          IN  /\ (resp'.req.boundaryRelation = Nil /\ resp'.req.isActive # Nil)
                     => new.boundaryRelation = old.boundaryRelation
              /\ (resp'.req.boundaryRelation = Some(<<"B2">>) /\ resp'.req.isActive = Nil)
                     => new.isActive = old.isActive]_vars

(***************************************************************************)
(* C29: the two activation flags of an employee agree in every reachable   *)
(* state: isActive is true exactly when status is ACTIVE.                  *)
(***************************************************************************)
C29_FlagsAgree ==
    \A id \in DOMAIN db.employee :
        db.employee[id].isActive <=> (db.employee[id].status = "ACTIVE")

(***************************************************************************)
(* C30: the NotFound error returned to a request carries the description   *)
(* and the operation set by that request's own operation, under every      *)
(* interleaving with other requests.                                       *)
(***************************************************************************)
C30_OwnError ==
    [][(resp' # resp /\ resp'.status = 500) =>
          LET e == resp'.err[1]
          IN  /\ resp'.op = "ReplaceJurisdiction"
                    => (e.Description = "jurisdiction not found" /\ e.Op = "ReplaceJurisdiction")
              /\ resp'.op = "GetEmployeeByUUID"
                    => e.Description = "employee not found"]_vars

====
